---- MODULE Spec2Model ----
(***************************************************************************)
(* A state-machine model of fu/ppt.py: the PPTXSlides session object, its  *)
(* load/save, the slide classification, the table extraction and cache,    *)
(* and the position-addressed setters.                                     *)
(*                                                                         *)
(* Texts are sequences of characters (one-character strings), so that      *)
(* lower(), startswith(), split and replace are computed, not assumed.     *)
(* A text frame is the sequence of its paragraphs, as python-pptx stores   *)
(* it: frame.text joins the paragraphs with "\n", frame.text = s splits s  *)
(* at "\n", paragraph.text = s turns "\n" into a line break (read back as  *)
(* a vertical tab).                                                        *)
(***************************************************************************)
EXTENDS Integers, Sequences, FiniteSets, TLC

(***************************************************************************)
(* Bounds of the model.                                                    *)
(***************************************************************************)
\* API calls made on one session object after its construction.
MaxOps == 2
\* The same, for the longer sessions of specification SpecDeep.
MaxDeepOps == 3
\* Slides of a generated deck (specification SpecClassify).
MaxSlides == 2

(***************************************************************************)
(* Characters and strings.                                                 *)
(***************************************************************************)
NL == "\n"
\* the vertical tab python-pptx reads a line break as
VT == "VT"
SP == " "

UpperChars == <<"A", "B", "C", "D", "E", "F", "G", "H", "I", "J", "K", "L", "M",
                "N", "O", "P", "Q", "R", "S", "T", "U", "V", "W", "X", "Y", "Z">>
LowerChars == <<"a", "b", "c", "d", "e", "f", "g", "h", "i", "j", "k", "l", "m",
                "n", "o", "p", "q", "r", "s", "t", "u", "v", "w", "x", "y", "z">>

\* str.lower(), one character
LowerChar(c) ==
    IF \E i \in 1..Len(UpperChars) : UpperChars[i] = c
    THEN LowerChars[CHOOSE i \in 1..Len(UpperChars) : UpperChars[i] = c]
    ELSE c

\* str.lower()
Lower(s) == [i \in 1..Len(s) |-> LowerChar(s[i])]

\* s.startswith(p)
StartsWith(s, p) == Len(s) >= Len(p) /\ SubSeq(s, 1, Len(p)) = p

\* p in s
Contains(s, p) ==
    \E i \in 1..(Len(s) - Len(p) + 1) : SubSeq(s, i, i + Len(p) - 1) = p

\* s.replace(a, b), a and b single characters
Replace(s, a, b) == [i \in 1..Len(s) |-> IF s[i] = a THEN b ELSE s[i]]

\* sep.join(parts)
RECURSIVE Join(_, _)
Join(parts, sep) ==
    IF Len(parts) = 0 THEN <<>>
    ELSE IF Len(parts) = 1 THEN parts[1]
    ELSE parts[1] \o <<sep>> \o Join(Tail(parts), sep)

\* s.split(sep): never empty, "" splits to [""]
RECURSIVE Split(_, _)
Split(s, sep) ==
    IF \A i \in 1..Len(s) : s[i] # sep THEN <<s>>
    ELSE LET k == CHOOSE i \in 1..Len(s) :
                     s[i] = sep /\ \A j \in 1..(i - 1) : s[j] # sep
         IN <<SubSeq(s, 1, k - 1)>> \o Split(SubSeq(s, k + 1, Len(s)), sep)

SeqMax(S) == IF S = {} THEN 0 ELSE CHOOSE x \in S : \A y \in S : y <= x

(***************************************************************************)
(* python-pptx text frames, as the code uses them.                         *)
(***************************************************************************)
\* text_frame.text (and shape.text, cell.text): the paragraphs joined by "\n"
FrameText(paras) == Join(paras, NL)

\* text_frame.text = s (and cell.text = s): one paragraph per "\n"-separated part
SetFrameText(s) == Split(s, NL)

\* p = text_frame.add_paragraph(); p.text = s: inside a paragraph "\n" is a
\* line break, which reads back as a vertical tab
AddParagraph(paras, s) == Append(paras, Replace(s, NL, VT))

(***************************************************************************)
(* Shapes, slides, decks.  A shape has a text frame (TEXT), a table        *)
(* (TABLE) or neither (PICTURE).  A table cell holds a text frame.         *)
(***************************************************************************)
TextShape(is_title, s) ==
    [kind |-> "TEXT", is_title |-> is_title, paras |-> SetFrameText(s), rows |-> <<>>]

\* grid: rows of cell texts
TableShape(grid) ==
    [kind |-> "TABLE", is_title |-> FALSE, paras |-> <<>>,
     rows |-> [r \in 1..Len(grid) |->
                  [c \in 1..Len(grid[r]) |-> SetFrameText(grid[r][c])]]]

PictureShape == [kind |-> "PICTURE", is_title |-> FALSE, paras |-> <<>>, rows |-> <<>>]

\* hasattr(shape, "text")
HasText(shape) == shape.kind = "TEXT"
\* hasattr(shape, "text_frame")
HasTextFrame(shape) == shape.kind = "TEXT"
\* shape.shape_type == MSO_SHAPE_TYPE.TABLE
IsTable(shape) == shape.kind = "TABLE"
\* hasattr(shape, "is_title") and shape.is_title
IsTitle(shape) == shape.is_title
\* shape.text
ShapeText(shape) == FrameText(shape.paras)

MkSlide(layout, shapes) == [layout |-> layout, shapes |-> shapes]

\* layout names
SectionHeaderName == <<"S", "e", "c", "t", "i", "o", "n", " ", "H", "e", "a", "d", "e", "r">>
TitleOnlyName == <<"T", "i", "t", "l", "e", " ", "O", "n", "l", "y">>
TitleSlideName == <<"T", "i", "t", "l", "e", " ", "S", "l", "i", "d", "e">>
LowerSectionName == <<"s", "e", "c", "t", "i", "o", "n", " ", "h", "e", "a", "d", "e", "r">>

\* texts
TitleWord == <<"t", "i", "t", "l", "e">>
SummaryWord == <<"s", "u", "m", "m", "a", "r", "y">>
SummaryColon == <<"s", "u", "m", "m", "a", "r", "y", ":">>
Untitled == <<"U", "n", "t", "i", "t", "l", "e", "d">>
TxSummaryQ1 == <<"S", "u", "m", "m", "a", "r", "y", ":", " ", "Q", "1">>
TxSUMMARY == <<"S", "U", "M", "M", "A", "R", "Y">>
TxSummar == <<"S", "u", "m", "m", "a", "r">>
TxIntro == <<"I", "n", "t", "r", "o">>
TxCovers == <<"C", "o", "v", "e", "r", "s", " ", "X">>
TxDeck == <<"D", "e", "c", "k">>
Tx42 == <<"4", "2">>
TxMulti == <<"x", NL, "y">>
TxA == <<"a">>
TxB == <<"b">>
TxNew == <<"N", "e", "w">>
TxBy == <<"B", "y">>
\* datetime.now().strftime("%m-%d-%Y"), the day of the run
Today == <<"1", "1", "-", "0", "1", "-", "2", "0", "2", "6">>
DefaultTitle == <<"W", "e", "e", "k", "l", "y", " ", "U", "p", "d", "a", "t", "e", " ">> \o Today
DefaultAttribution ==
    <<"A", "l", "e", "c", " ", ".", ".", " ", "d", "i", "d", " ", "t", "h", "i", "s", " ",
      "a", "u", "t", "o", "m", "a", "t", "i", "c", "a", "l", "l", "y">>

\* None, where the code passes or returns None in place of a text
NoneT == <<"None">>

(***************************************************************************)
(* The files the session can name: three decks, a path that does not       *)
(* exist until a save creates it, a directory and a file that is no deck.  *)
(***************************************************************************)
Grid21 == << <<TxA>>, <<TxMulti>> >>

DeckA ==
    << MkSlide(TitleOnlyName, <<TextShape(TRUE, TxSummaryQ1), TableShape(Grid21)>>),
       MkSlide(SectionHeaderName,
               <<TextShape(FALSE, TxIntro), TextShape(FALSE, TxCovers),
                 TextShape(FALSE, TxDeck)>>) >>

DeckB ==
    << MkSlide(SectionHeaderName,
               <<PictureShape, TextShape(FALSE, TxSUMMARY),
                 TableShape(<< <<TxA>> >>), TableShape(<< <<TxB>> >>)>>) >>

DeckC ==
    << MkSlide(TitleSlideName, <<TextShape(TRUE, TxDeck)>>),
       MkSlide(TitleOnlyName, <<PictureShape>>) >>

Paths == {"a.pptx", "b.pptx", "c.pptx", "out.pptx", "dir", "bad.pptx"}

Absent == [kind |-> "absent", slides |-> <<>>]
DeckFile(deck) == [kind |-> "deck", slides |-> deck]

InitFiles ==
    [p \in Paths |->
        CASE p = "a.pptx" -> DeckFile(DeckA)
          [] p = "b.pptx" -> DeckFile(DeckB)
          [] p = "c.pptx" -> DeckFile(DeckC)
          [] p = "dir" -> [kind |-> "dir", slides |-> <<>>]
          [] p = "bad.pptx" -> [kind |-> "corrupt", slides |-> <<>>]
          [] OTHER -> Absent]

(***************************************************************************)
(* Generated decks, for the classification: every sequence of at most      *)
(* MaxSlides slides, each a layout name with a shape list.                 *)
(***************************************************************************)
LayoutPool == {SectionHeaderName, TitleOnlyName, LowerSectionName}

ShapesPool ==
    { <<>>,
      <<TextShape(FALSE, TxSummaryQ1), TableShape(<< <<TxA>> >>)>>,
      <<TextShape(TRUE, TxIntro), TextShape(FALSE, TxSUMMARY), TableShape(<< <<TxA>> >>)>>,
      <<TextShape(FALSE, TxSummar), TableShape(<< <<TxA>> >>)>>,
      <<TextShape(TRUE, TxSummaryQ1)>>,
      <<PictureShape, TextShape(TRUE, TxIntro), TextShape(FALSE, TxCovers)>>,
      <<TextShape(FALSE, <<>>), TableShape(<< <<TxB>> >>), TextShape(TRUE, SummaryWord)>>,
      <<TextShape(FALSE, Untitled), TextShape(FALSE, TxIntro)>> }

SlidePool == {MkSlide(l, sh) : l \in LayoutPool, sh \in ShapesPool}

GenDecks == UNION {[1..n -> SlidePool] : n \in 0..MaxSlides}

(***************************************************************************)
(* The state: the files on disk, and the fields of one PPTXSlides object.  *)
(* slides holds the slide objects of the presentation (list(prs.slides)    *)
(* shares them), so a write through slides[i] is a write to the document.  *)
(* call, ret and raised record the last API call, what it returned and     *)
(* the exception it raised; repeated says that the last call was the call  *)
(* before it made again; budget counts the calls left.                     *)
(***************************************************************************)
VARIABLES files, presentation, file_path, slides, title_slides, summary_slides,
          section_header, section_summaries, summary_tables,
          call, ret, raised, pend, repeated, budget

vars == <<files, presentation, file_path, slides, title_slides, summary_slides,
          section_header, section_summaries, summary_tables,
          call, ret, raised, pend, repeated, budget>>

\* the fields of the object
fields == <<presentation, file_path, slides, title_slides, summary_slides,
            section_header, section_summaries, summary_tables>>

\* dict helpers: a dict is a function on its key set
EmptyDict == <<>>
Keys(d) == DOMAIN d
Put(d, k, v) == [x \in (DOMAIN d) \cup {k} |-> IF x = k THEN v ELSE d[x]]

\* return values
RetNone == [kind |-> "None", val |-> <<>>]
RetBool(b) == [kind |-> "bool", val |-> b]
RetList(l) == [kind |-> "list", val |-> l]
\* the slide list load_presentation returns
RetSlides(l) == [kind |-> "slides", val |-> [list |-> l]]
RetPath(p) == [kind |-> "path", val |-> p]

\* the slide at 0-based position i of a slide list
SlideAt(sl, i) == sl[IF i < 0 THEN Len(sl) + i + 1 ELSE i + 1]

(***************************************************************************)
(* extract_metadata_from_slide: the resolved title.                        *)
(***************************************************************************)
RECURSIVE TitleScan(_, _, _)
TitleScan(shapes, k, title) ==
    IF k > Len(shapes) THEN title
    ELSE LET shape == shapes[k] IN
         IF HasText(shape) /\ ShapeText(shape) # <<>>
         THEN IF IsTitle(shape) THEN ShapeText(shape)
              ELSE IF title = Untitled THEN TitleScan(shapes, k + 1, ShapeText(shape))
              ELSE TitleScan(shapes, k + 1, title)
         ELSE TitleScan(shapes, k + 1, title)

SlideTitle(slide) == TitleScan(slide.shapes, 1, Untitled)

\* the metadata dict: slide number, layout name, title and shape total
SlideMetadata(slide, index) ==
    [slide_number |-> index + 1, layout_name |-> slide.layout,
     title |-> SlideTitle(slide), total_shapes |-> Len(slide.shapes)]

(***************************************************************************)
(* Classification, as load_presentation runs it.                           *)
(***************************************************************************)
\* title_slides: [0], then every later slide whose layout name holds "title"
RECURSIVE TitleSlidesFrom(_, _, _)
TitleSlidesFrom(sl, i, acc) ==
    IF i >= Len(sl) THEN acc
    ELSE TitleSlidesFrom(sl, i + 1,
             IF i > 0 /\ Contains(Lower(SlideAt(sl, i).layout), TitleWord)
             THEN Append(acc, i) ELSE acc)

TitleSlides(sl) == TitleSlidesFrom(sl, 0, <<0>>)

\* a mutant: the layout name compared without regard to case
IsSectionHeaderLayoutAnyCase(slide) == Lower(slide.layout) = Lower(SectionHeaderName)

IsSectionHeaderLayout(slide) == slide.layout = SectionHeaderName

\* a mutant: the title and the summary are taken from the first two shapes
\* that have a text frame, wherever they stand
SectionEntryFirstTexts(slide) ==
    LET ts == SelectSeq(slide.shapes, HasTextFrame) IN
    [section_title |-> IF Len(ts) >= 1 THEN ShapeText(ts[1]) ELSE <<>>,
     section_summary |-> IF Len(ts) >= 2 THEN ShapeText(ts[2]) ELSE <<>>]

\* the shape loop of _identify_section_header_slides: positions 0 and 1 only
SectionEntry(slide) ==
    LET sh == slide.shapes IN
    [section_title |->
        IF Len(sh) >= 1 /\ HasTextFrame(sh[1]) THEN ShapeText(sh[1]) ELSE <<>>,
     section_summary |->
        IF Len(sh) >= 2 /\ HasTextFrame(sh[2]) THEN ShapeText(sh[2]) ELSE <<>>]

\* _identify_section_header_slides: the returned list
RECURSIVE SectionHeadersFrom(_, _, _)
SectionHeadersFrom(sl, i, acc) ==
    IF i >= Len(sl) THEN acc
    ELSE SectionHeadersFrom(sl, i + 1,
             IF IsSectionHeaderLayout(SlideAt(sl, i)) THEN Append(acc, i) ELSE acc)

IdentifySectionHeaderSlides(sl) == SectionHeadersFrom(sl, 0, <<>>)

\* a mutant: the map is rebuilt from the slides of the deck being loaded
StoreSectionEntriesReset(sl, i, d) ==
    [k \in {j \in i..(Len(sl) - 1) : IsSectionHeaderLayout(SlideAt(sl, j))} |->
        SectionEntry(SlideAt(sl, k))]

\* _identify_section_header_slides: its writes to section_summaries
RECURSIVE StoreSectionEntries(_, _, _)
StoreSectionEntries(sl, i, d) ==
    IF i >= Len(sl) THEN d
    ELSE StoreSectionEntries(sl, i + 1,
             IF IsSectionHeaderLayout(SlideAt(sl, i))
             THEN Put(d, i, SectionEntry(SlideAt(sl, i)))
             ELSE d)

\* a mutant: any shape with a non-empty text marks the slide
RECURSIVE HasSummaryTextAnyText(_, _)
HasSummaryTextAnyText(shapes, k) ==
    IF k > Len(shapes) THEN FALSE
    ELSE IF HasText(shapes[k]) /\ ShapeText(shapes[k]) # <<>> THEN TRUE
    ELSE HasSummaryTextAnyText(shapes, k + 1)

\* the first loop of _identify_summary_slides: some shape with non-empty text
\* whose lower-cased text starts with "summary" (both branches set the flag)
RECURSIVE HasSummaryText(_, _)
HasSummaryText(shapes, k) ==
    IF k > Len(shapes) THEN FALSE
    ELSE LET shape == shapes[k] IN
         IF HasText(shape) /\ ShapeText(shape) # <<>>
            /\ StartsWith(Lower(ShapeText(shape)), SummaryWord)
         THEN TRUE
         ELSE HasSummaryText(shapes, k + 1)

\* the second loop: some table shape
HasTable(slide) == \E k \in 1..Len(slide.shapes) : IsTable(slide.shapes[k])

\* a mutant: the table is not asked for
IsSummarySlideNoTable(slide) == HasSummaryText(slide.shapes, 1)

IsSummarySlide(slide) == HasSummaryText(slide.shapes, 1) /\ HasTable(slide)

RECURSIVE SummarySlidesFrom(_, _, _)
SummarySlidesFrom(sl, i, acc) ==
    IF i >= Len(sl) THEN acc
    ELSE SummarySlidesFrom(sl, i + 1,
             IF IsSummarySlide(SlideAt(sl, i)) THEN Append(acc, i) ELSE acc)

IdentifySummarySlides(sl) == SummarySlidesFrom(sl, 0, <<>>)

\* the paths __init__ can be given: None, or a file that loads (a load that
\* raises leaves no object behind)
InitPaths == {"None"} \cup {p \in Paths : InitFiles[p].kind = "deck"}

\* PPTXSlides(file_path): the empty fields, then load_presentation(file_path)
\* when a path is given
InitWith(calls) ==
    \E p \in InitPaths :
        LET sl == IF p = "None" THEN <<>> ELSE InitFiles[p].slides IN
        /\ files = InitFiles
        /\ presentation = IF p = "None" THEN "None" ELSE "Presentation"
        /\ file_path = p
        /\ slides = sl
        /\ title_slides = IF p = "None" THEN <<>> ELSE TitleSlides(sl)
        /\ summary_slides = IdentifySummarySlides(sl)
        /\ section_header = IdentifySectionHeaderSlides(sl)
        /\ section_summaries = StoreSectionEntries(sl, 0, EmptyDict)
        /\ summary_tables = EmptyDict
        /\ call = [op |-> "__init__", args |-> <<p>>]
        /\ ret = RetNone
        /\ raised = "None"
        /\ pend = <<>>
        /\ repeated = FALSE
        /\ budget = calls

Init == InitWith(MaxOps)

(***************************************************************************)
(* load_presentation.                                                      *)
(***************************************************************************)
Called(op, args) ==
    /\ call' = [op |-> op, args |-> args]
    /\ repeated' = (call = [op |-> op, args |-> args])

LoadPresentation(path) ==
    /\ budget > 0
    /\ budget' = budget - 1
    /\ Called("load_presentation", <<path>>)
    /\ pend' = <<>>
    /\ UNCHANGED files
    /\ CASE files[path].kind = "absent" ->
              /\ raised' = "FileNotFoundError"
              /\ ret' = RetNone
              /\ UNCHANGED fields
         [] files[path].kind = "dir" ->
              /\ raised' = "ValueError"
              /\ ret' = RetNone
              /\ UNCHANGED fields
         [] files[path].kind = "corrupt" ->
              \* file_path is assigned before Presentation(file_path) raises
              /\ raised' = "PackageNotFoundError"
              /\ ret' = RetNone
              /\ file_path' = path
              /\ UNCHANGED <<presentation, slides, title_slides, summary_slides,
                             section_header, section_summaries, summary_tables>>
         [] OTHER ->
              LET sl == files[path].slides IN
              /\ raised' = "None"
              /\ file_path' = path
              /\ presentation' = "Presentation"
              /\ slides' = sl
              /\ title_slides' = TitleSlides(sl)
              /\ section_header' = IdentifySectionHeaderSlides(sl)
              /\ section_summaries' = StoreSectionEntries(sl, 0, section_summaries)
              /\ summary_slides' = IdentifySummarySlides(sl)
              /\ ret' = RetSlides(sl)
              /\ UNCHANGED summary_tables

(***************************************************************************)
(* The arguments the calls are made with.                                  *)
(***************************************************************************)
\* the longest deck among the files
LongestDeck == SeqMax({Len(InitFiles[p].slides) : p \in Paths})
\* slide indices: valid ones, negative ones that wrap, and ones out of range
\* on both sides
Indices == (0 - LongestDeck - 1)..LongestDeck
\* row and column indices, in and out of range on both sides: the tables of
\* the files have at most two rows and one column
Rows == (0 - 1)..2
Cols == (0 - 1)..1
CellTexts == {Tx42, TxMulti}
TitleArgs == {NoneT, TxNew}
AttributionArgs == {NoneT, TxBy}
SectionArgs == {NoneT, TxNew}

(***************************************************************************)
(* save_presentation.                                                      *)
(***************************************************************************)
SavePresentation(path) ==
    /\ budget > 0
    /\ budget' = budget - 1
    /\ Called("save_presentation", <<path>>)
    /\ pend' = <<>>
    /\ UNCHANGED fields
    /\ IF presentation = "None"
       THEN \* None has no save
            /\ raised' = "AttributeError"
            /\ ret' = RetNone
            /\ UNCHANGED files
       ELSE /\ raised' = "None"
            /\ ret' = RetPath(path)
            /\ files' = [files EXCEPT ![path] = DeckFile(slides)]

(***************************************************************************)
(* extract_table_from_slide.                                               *)
(***************************************************************************)
\* one table shape to its grid: cell.text with every "\n" replaced by " "
TableData(shape) ==
    [r \in 1..Len(shape.rows) |->
        [c \in 1..Len(shape.rows[r]) |->
            Replace(FrameText(shape.rows[r][c]), NL, SP)]]

\* the shape loop: one grid per table shape, in shape order
RECURSIVE SlideTables(_, _)
SlideTables(shapes, k) ==
    IF k > Len(shapes) THEN <<>>
    ELSE (IF IsTable(shapes[k]) THEN <<TableData(shapes[k])>> ELSE <<>>)
         \o SlideTables(shapes, k + 1)

\* l[index] of a Python list: a negative index counts from the end, and an
\* index outside [-len, len) raises IndexError
PyIndexOk(l, index) == (0 - Len(l)) <= index /\ index < Len(l)
\* the 1-based position l[index] names
PyPos(l, index) == IF index < 0 THEN Len(l) + index + 1 ELSE index + 1
PyItem(l, index) == l[PyPos(l, index)]

\* the guard of extract_table_from_slide
ExtractIndexInvalid(sl, index) == index >= Len(sl)

\* a mutant: the result is stored also when it is empty
ExtractTablesAlwaysStore(sl, cache, index) ==
    IF ExtractIndexInvalid(sl, index)
    THEN [raised |-> "None", tables |-> <<>>, cache |-> cache]
    ELSE IF ~PyIndexOk(sl, index)
    THEN [raised |-> "IndexError", tables |-> <<>>, cache |-> cache]
    ELSE LET slide_tables == SlideTables(PyItem(sl, index).shapes, 1) IN
         [raised |-> "None", tables |-> slide_tables,
          cache |-> Put(cache, index, slide_tables)]

\* a mutant: the grids found are added to the entry the cache has
ExtractTablesMerge(sl, cache, index) ==
    IF ExtractIndexInvalid(sl, index)
    THEN [raised |-> "None", tables |-> <<>>, cache |-> cache]
    ELSE IF ~PyIndexOk(sl, index)
    THEN [raised |-> "IndexError", tables |-> <<>>, cache |-> cache]
    ELSE LET slide_tables == SlideTables(PyItem(sl, index).shapes, 1) IN
         [raised |-> "None", tables |-> slide_tables,
          cache |-> IF slide_tables # <<>>
                    THEN Put(cache, index,
                             (IF index \in Keys(cache) THEN cache[index] ELSE <<>>)
                                 \o slide_tables)
                    ELSE cache]

\* what extract_table_from_slide(index) does to the cache and what it returns
ExtractTables(sl, cache, index) ==
    IF ExtractIndexInvalid(sl, index)
    THEN [raised |-> "None", tables |-> <<>>, cache |-> cache]
    ELSE IF ~PyIndexOk(sl, index)
    THEN [raised |-> "IndexError", tables |-> <<>>, cache |-> cache]
    ELSE LET slide_tables == SlideTables(PyItem(sl, index).shapes, 1) IN
         [raised |-> "None", tables |-> slide_tables,
          cache |-> IF slide_tables # <<>> THEN Put(cache, index, slide_tables)
                    ELSE cache]

ExtractTableFromSlide(index) ==
    /\ budget > 0
    /\ budget' = budget - 1
    /\ Called("extract_table_from_slide", <<index>>)
    /\ pend' = <<>>
    /\ LET e == ExtractTables(slides, summary_tables, index) IN
       /\ raised' = e.raised
       /\ ret' = IF e.raised = "None" THEN RetList(e.tables) ELSE RetNone
       /\ summary_tables' = e.cache
    /\ UNCHANGED <<files, presentation, file_path, slides, title_slides,
                   summary_slides, section_header, section_summaries>>

\* extract_metadata_from_slide(slide, index): the caller passes a slide object
\* of the deck, here the one at position index, with its index
ExtractMetadataFromSlide(index) ==
    /\ budget > 0
    /\ budget' = budget - 1
    /\ 0 <= index /\ index < Len(slides)
    /\ Called("extract_metadata_from_slide", <<index>>)
    /\ pend' = <<>>
    /\ raised' = "None"
    /\ ret' = [kind |-> "dict", val |-> SlideMetadata(SlideAt(slides, index), index)]
    /\ UNCHANGED <<files, fields>>

(***************************************************************************)
(* extract_presentation_metadata and the two loops it runs.                *)
(***************************************************************************)
\* extract_summary_slides_table: the summary slides, in list order
RECURSIVE ExtractSummarySlidesTable(_, _, _, _)
ExtractSummarySlidesTable(sl, list, k, cache) ==
    IF k > Len(list) THEN cache
    ELSE LET e == ExtractTables(sl, cache, list[k]) IN
         ExtractSummarySlidesTable(sl, list, k + 1,
             IF e.tables # <<>> THEN Put(e.cache, list[k], e.tables) ELSE e.cache)

\* extract_section_summary_slides: the section-header slides, in list order
RECURSIVE ExtractSectionSummarySlides(_, _, _, _)
ExtractSectionSummarySlides(sl, list, k, d) ==
    IF k > Len(list) THEN d
    ELSE ExtractSectionSummarySlides(sl, list, k + 1,
             Put(d, list[k], SectionEntry(SlideAt(sl, list[k]))))

ExtractPresentationMetadata ==
    /\ budget > 0
    /\ budget' = budget - 1
    /\ Called("extract_presentation_metadata", <<>>)
    /\ pend' = <<>>
    /\ raised' = "None"
    /\ ret' = [kind |-> "dict",
               val |-> [slides |-> Len(slides), title_slides |-> title_slides,
                        summary_slides |-> summary_slides,
                        section_header_slides |-> section_header]]
    /\ summary_tables' = IF summary_slides # <<>>
                         THEN ExtractSummarySlidesTable(slides, summary_slides, 1,
                                                        summary_tables)
                         ELSE summary_tables
    /\ section_summaries' = IF section_header # <<>>
                            THEN ExtractSectionSummarySlides(slides, section_header, 1,
                                                             section_summaries)
                            ELSE section_summaries
    /\ UNCHANGED <<files, presentation, file_path, slides, title_slides,
                   summary_slides, section_header>>

(***************************************************************************)
(* get_summary_table, get_section_summary.                                 *)
(***************************************************************************)
\* 0 <= index < len(self.slides)
ValidIndex(sl, index) == 0 <= index /\ index < Len(sl)

\* a mutant: the cache is read and the extraction never run
GetTablesNoExtract(sl, cache, index) ==
    IF ~ValidIndex(sl, index)
    THEN [ret |-> RetNone, cache |-> cache]
    ELSE [ret |-> IF index \in Keys(cache) THEN RetList(cache[index]) ELSE RetNone,
          cache |-> cache]

\* what get_summary_table(index) returns and what it leaves in the cache
GetTables(sl, cache, index) ==
    IF ~ValidIndex(sl, index)
    THEN [ret |-> RetNone, cache |-> cache]
    ELSE LET c == IF index \notin Keys(cache)
                  THEN ExtractTables(sl, cache, index).cache
                  ELSE cache IN
         [ret |-> IF index \in Keys(c) THEN RetList(c[index]) ELSE RetNone,
          cache |-> c]

GetSummaryTable(index) ==
    /\ budget > 0
    /\ budget' = budget - 1
    /\ Called("get_summary_table", <<index>>)
    /\ UNCHANGED pend
    /\ raised' = "None"
    /\ ret' = GetTables(slides, summary_tables, index).ret
    /\ summary_tables' = GetTables(slides, summary_tables, index).cache
    /\ UNCHANGED <<files, presentation, file_path, slides, title_slides,
                   summary_slides, section_header, section_summaries>>

GetSectionSummary(index) ==
    /\ budget > 0
    /\ budget' = budget - 1
    /\ Called("get_section_summary", <<index>>)
    /\ pend' = <<>>
    /\ raised' = "None"
    /\ ret' = IF index \in Keys(section_summaries)
              THEN [kind |-> "dict", val |-> section_summaries[index]]
              ELSE RetNone
    /\ UNCHANGED <<files, fields>>

(***************************************************************************)
(* set_presentation_title_slide.                                           *)
(***************************************************************************)
\* the positions of the shapes with a text frame, in shape order
RECURSIVE TextShapes(_, _)
TextShapes(shapes, k) ==
    IF k > Len(shapes) THEN <<>>
    ELSE (IF HasTextFrame(shapes[k]) THEN <<k>> ELSE <<>>) \o TextShapes(shapes, k + 1)

\* the paragraph the attribution becomes when the slide has one text shape
AttributionParagraph(attribution_text) == <<NL, NL>> \o attribution_text

\* a mutant: with one text shape, the attribution overwrites the title
WriteTitleContentOverwrite(shapes, title_text, attribution_text) ==
    LET ts == TextShapes(shapes, 1)
        s1 == IF Len(ts) >= 1
              THEN [shapes EXCEPT ![ts[1]].paras = SetFrameText(title_text)]
              ELSE shapes
    IN IF Len(ts) >= 2
       THEN [s1 EXCEPT ![ts[2]].paras = SetFrameText(attribution_text)]
       ELSE IF Len(ts) = 1
       THEN [s1 EXCEPT ![ts[1]].paras = SetFrameText(attribution_text)]
       ELSE s1

\* the content loop: title to text shape 0, attribution to text shape 1, or
\* appended to text shape 0 as a paragraph when that is the only one
WriteTitleContent(shapes, title_text, attribution_text) ==
    LET ts == TextShapes(shapes, 1)
        s1 == IF Len(ts) >= 1
              THEN [shapes EXCEPT ![ts[1]].paras = SetFrameText(title_text)]
              ELSE shapes
    IN IF Len(ts) >= 2
       THEN [s1 EXCEPT ![ts[2]].paras = SetFrameText(attribution_text)]
       ELSE IF Len(ts) = 1
       THEN [s1 EXCEPT ![ts[1]].paras =
                 AddParagraph(s1[ts[1]].paras, AttributionParagraph(attribution_text))]
       ELSE s1

\* the guard of set_presentation_title_slide
TitleSlideInvalid(index) ==
    presentation = "None" \/ slides = <<>> \/ ~ValidIndex(slides, index)

SetPresentationTitleSlide(index, title_arg, attribution_arg) ==
    /\ budget > 0
    /\ budget' = budget - 1
    /\ Called("set_presentation_title_slide", <<index, title_arg, attribution_arg>>)
    /\ pend' = <<>>
    /\ raised' = "None"
    /\ IF TitleSlideInvalid(index)
       THEN /\ ret' = RetBool(FALSE)
            /\ UNCHANGED slides
       ELSE LET title_text == IF title_arg = NoneT THEN DefaultTitle ELSE title_arg
                attribution_text == IF attribution_arg = NoneT THEN DefaultAttribution
                                    ELSE attribution_arg
            IN /\ slides' = [slides EXCEPT ![index + 1].shapes =
                                WriteTitleContent(@, title_text, attribution_text)]
               /\ ret' = RetBool(TRUE)
    /\ UNCHANGED <<files, presentation, file_path, title_slides, summary_slides,
                   section_header, section_summaries, summary_tables>>

(***************************************************************************)
(* set_summary_table.                                                      *)
(***************************************************************************)
\* a mutant: the negative rows are not refused
RowInvalidNoNegative(table_data, row) == row >= Len(table_data)

\* row < 0 or row >= len(table_data)
RowInvalid(table_data, row) == row < 0 \/ row >= Len(table_data)
\* col < 0 or col >= len(table_data[0])
ColInvalid(table_data, col) == col < 0 \/ col >= Len(table_data[1])

\* table_data[row][col] = new_text, on the first cached grid
WriteCache(cache, index, row, col, new_text) ==
    LET table_data == cache[index][1] IN
    [cache EXCEPT ![index][1][PyPos(table_data, row)]
                     [PyPos(table_data[PyPos(table_data, row)], col)] = new_text]

\* the position of the first table shape, 0 when there is none
FirstTable(shapes) ==
    IF \E k \in 1..Len(shapes) : IsTable(shapes[k])
    THEN CHOOSE k \in 1..Len(shapes) :
             IsTable(shapes[k]) /\ \A j \in 1..(k - 1) : ~IsTable(shapes[j])
    ELSE 0

\* table.cell(row, col) raises IndexError outside the native table
CellExists(shape, row, col) ==
    /\ PyIndexOk(shape.rows, row)
    /\ PyIndexOk(PyItem(shape.rows, row), col)

\* shape.table.cell(row, col).text = new_text
WriteCell(sl, index, k, row, col, new_text) ==
    LET rows == PyItem(sl, index).shapes[k].rows IN
    [sl EXCEPT ![PyPos(sl, index)].shapes[k].rows[PyPos(rows, row)]
                  [PyPos(PyItem(rows, row), col)] = SetFrameText(new_text)]

SetSummaryTable(index, row, col, new_text) ==
    /\ budget > 0
    /\ budget' = budget - 1
    /\ Called("set_summary_table", <<index, row, col, new_text>>)
    /\ raised' = "None"
    /\ UNCHANGED <<files, presentation, file_path, title_slides, summary_slides,
                   section_header, section_summaries>>
    /\ IF ~ValidIndex(slides, index)
       THEN /\ ret' = RetBool(FALSE)
            /\ pend' = <<>>
            /\ UNCHANGED <<slides, summary_tables>>
       ELSE
       LET e == ExtractTables(slides, summary_tables, index)
           extracted == index \notin Keys(summary_tables)
           cache == IF extracted THEN e.cache ELSE summary_tables
       IN
       IF (extracted /\ e.tables = <<>>) \/ cache[index] = <<>>
       THEN /\ ret' = RetBool(FALSE)
            /\ pend' = <<>>
            /\ UNCHANGED <<slides, summary_tables>>
       ELSE
       LET table_data == cache[index][1] IN
       IF RowInvalid(table_data, row) \/ ColInvalid(table_data, col)
       THEN /\ ret' = RetBool(FALSE)
            /\ pend' = <<>>
            /\ summary_tables' = cache
            /\ UNCHANGED slides
       ELSE
       LET k == FirstTable(SlideAt(slides, index).shapes) IN
       /\ summary_tables' = WriteCache(cache, index, row, col, new_text)
       /\ IF k = 0
          THEN \* no table shape: reported, and the call still returns True
               /\ ret' = RetBool(TRUE)
               /\ UNCHANGED slides
          ELSE IF CellExists(SlideAt(slides, index).shapes[k], row, col)
          THEN /\ ret' = RetBool(TRUE)
               /\ slides' = WriteCell(slides, index, k, row, col, new_text)
          ELSE \* IndexError caught: False, the cached grid already written
               /\ ret' = RetBool(FALSE)
               /\ UNCHANGED slides
       /\ pend' = IF ret'.val THEN <<index, row, col, new_text>> ELSE <<>>

(***************************************************************************)
(* set_section_summary.                                                    *)
(***************************************************************************)
\* the cached entry, each given part replaced
WriteSectionEntry(entry, title, summary) ==
    [section_title |-> IF title # NoneT THEN title ELSE entry.section_title,
     section_summary |-> IF summary # NoneT THEN summary ELSE entry.section_summary]

\* the shape loop: title to position 0, summary to position 1
WriteSectionShapes(shapes, title, summary) ==
    [k \in 1..Len(shapes) |->
        IF k = 1 /\ HasTextFrame(shapes[k]) /\ title # NoneT
        THEN [shapes[k] EXCEPT !.paras = SetFrameText(title)]
        ELSE IF k = 2 /\ HasTextFrame(shapes[k]) /\ summary # NoneT
        THEN [shapes[k] EXCEPT !.paras = SetFrameText(summary)]
        ELSE shapes[k]]

\* a mutant: the index is checked against the slides, as the other setters do
SectionIndexInvalidBySlide(d, sl, index) == ~(0 <= index /\ index < Len(sl))

\* the guard of set_section_summary: index not in self.section_summaries
SectionIndexInvalid(d, sl, index) == index \notin Keys(d)

SetSectionSummary(index, title, summary) ==
    /\ budget > 0
    /\ budget' = budget - 1
    /\ Called("set_section_summary", <<index, title, summary>>)
    /\ pend' = <<>>
    /\ raised' = "None"
    /\ UNCHANGED <<files, presentation, file_path, title_slides, summary_slides,
                   section_header, summary_tables>>
    /\ IF SectionIndexInvalid(section_summaries, slides, index)
       THEN /\ ret' = RetBool(FALSE)
            /\ UNCHANGED <<slides, section_summaries>>
       ELSE /\ section_summaries' =
                  [section_summaries EXCEPT
                      ![index] = WriteSectionEntry(@, title, summary)]
            /\ IF index < Len(slides)
               THEN /\ slides' = [slides EXCEPT ![index + 1].shapes =
                                     WriteSectionShapes(@, title, summary)]
                    /\ ret' = RetBool(TRUE)
               ELSE /\ ret' = RetBool(FALSE)
                    /\ UNCHANGED slides

(***************************************************************************)
(* The show methods.  Printing is not state; what they do to the object    *)
(* is.                                                                     *)
(***************************************************************************)
\* a mutant: a summary slide's tables are extracted at every show
ShowSlideCacheAlways(sl, list, cache, index) ==
    IF \E k \in 1..Len(list) : list[k] = index
    THEN ExtractTables(sl, cache, index).cache
    ELSE cache

\* show_slide_metadata(slide, index): a summary slide's tables are extracted
\* when the cache is empty
ShowSlideCache(sl, list, cache, index) ==
    IF (\E k \in 1..Len(list) : list[k] = index) /\ cache = EmptyDict
    THEN ExtractTables(sl, cache, index).cache
    ELSE cache

\* the slide object is only read: any slide of the deck may be passed
ShowSlideMetadata(index) ==
    /\ slides # <<>>
    /\ budget > 0
    /\ budget' = budget - 1
    /\ Called("show_slide_metadata", <<index>>)
    /\ UNCHANGED pend
    /\ raised' = "None"
    /\ ret' = RetNone
    /\ summary_tables' = ShowSlideCache(slides, summary_slides, summary_tables, index)
    /\ UNCHANGED <<files, presentation, file_path, slides, title_slides,
                   summary_slides, section_header, section_summaries>>

\* show_presentation_metadata: show_slide_metadata for every slide in order
RECURSIVE ShowAllCache(_, _, _, _)
ShowAllCache(sl, list, cache, i) ==
    IF i >= Len(sl) THEN cache
    ELSE ShowAllCache(sl, list, ShowSlideCache(sl, list, cache, i), i + 1)

ShowPresentationMetadata ==
    /\ budget > 0
    /\ budget' = budget - 1
    /\ Called("show_presentation_metadata", <<>>)
    /\ UNCHANGED pend
    /\ raised' = "None"
    /\ ret' = RetNone
    /\ summary_tables' = ShowAllCache(slides, summary_slides, summary_tables, 0)
    /\ UNCHANGED <<files, presentation, file_path, slides, title_slides,
                   summary_slides, section_header, section_summaries>>

\* show_summary_tables(slide_title): the cache is keyed by index, never by a
\* title, so the lookup by title finds nothing and the method returns
ShowSummaryTables(slide_title) ==
    /\ budget > 0
    /\ budget' = budget - 1
    /\ Called("show_summary_tables", <<slide_title>>)
    /\ UNCHANGED pend
    /\ raised' = "None"
    /\ ret' = RetNone
    /\ UNCHANGED <<files, fields>>

(***************************************************************************)
(* The session: any call, in any order.                                    *)
(***************************************************************************)
Next ==
    \/ \E path \in Paths : LoadPresentation(path)
    \/ SavePresentation("out.pptx")
    \/ \E index \in Indices : ExtractTableFromSlide(index)
    \/ ExtractPresentationMetadata
    \/ \E index \in Indices : ExtractMetadataFromSlide(index)
    \/ \E index \in Indices : GetSummaryTable(index)
    \/ \E index \in Indices : GetSectionSummary(index)
    \/ \E index \in Indices, t \in TitleArgs, a \in AttributionArgs :
           SetPresentationTitleSlide(index, t, a)
    \/ \E index \in Indices, row \in Rows, col \in Cols, new_text \in CellTexts :
           SetSummaryTable(index, row, col, new_text)
    \/ \E index \in Indices, t \in SectionArgs, s \in SectionArgs :
           SetSectionSummary(index, t, s)
    \/ \E index \in Indices : ShowSlideMetadata(index)
    \/ ShowPresentationMetadata
    \/ ShowSummaryTables(TxSummaryQ1)

Spec == Init /\ [][Next]_vars

\* the same session, one call longer
InitDeep == InitWith(MaxDeepOps)

SpecDeep == InitDeep /\ [][Next]_vars

(***************************************************************************)
(* The classification alone: a.pptx holds any generated deck, the session  *)
(* is constructed without a file, and loads and extracts.                  *)
(***************************************************************************)
InitClassify ==
    \E d \in GenDecks :
        /\ files = [InitFiles EXCEPT !["a.pptx"] = DeckFile(d)]
        /\ presentation = "None"
        /\ file_path = "None"
        /\ slides = <<>>
        /\ title_slides = <<>>
        /\ summary_slides = <<>>
        /\ section_header = <<>>
        /\ section_summaries = EmptyDict
        /\ summary_tables = EmptyDict
        /\ call = [op |-> "__init__", args |-> <<"None">>]
        /\ ret = RetNone
        /\ raised = "None"
        /\ pend = <<>>
        /\ repeated = FALSE
        /\ budget = MaxOps

NextClassify ==
    \/ LoadPresentation("a.pptx")
    \/ ExtractPresentationMetadata
    \/ \E index \in 0..(MaxSlides - 1) : ExtractMetadataFromSlide(index)

SpecClassify == InitClassify /\ [][NextClassify]_vars

(***************************************************************************)
(* Vocabulary of the properties.                                           *)
(***************************************************************************)
\* i in list, for a Python list of indices
InList(list, i) == \E k \in 1..Len(list) : list[k] = i
\* the 0-based indices of the loaded deck
SlideIndices == 0..(Len(slides) - 1)
StrictlyAscending(list) == \A j, k \in 1..Len(list) : j < k => list[j] < list[k]
\* some shape of the slide has a text that starts, in lower case, with prefix
SomeTextStartsWith(slide, prefix) ==
    \E k \in 1..Len(slide.shapes) :
        /\ slide.shapes[k].kind = "TEXT"
        /\ StartsWith(Lower(FrameText(slide.shapes[k].paras)), prefix)
SomeTableShape(slide) == \E k \in 1..Len(slide.shapes) : slide.shapes[k].kind = "TABLE"

\* the first table shape of a slide that has one
FirstTableShape(slide) ==
    slide.shapes[CHOOSE k \in 1..Len(slide.shapes) :
                     /\ slide.shapes[k].kind = "TABLE"
                     /\ \A j \in 1..(k - 1) : slide.shapes[j].kind # "TABLE"]
\* the last call and its first argument
Op == call.op
Arg(k) == call.args[k]
IsSetter(op) ==
    op \in {"set_presentation_title_slide", "set_summary_table", "set_section_summary"}
\* the positions of the shapes of a slide that have a text frame
TextPos(shapes) == {k \in 1..Len(shapes) : shapes[k].kind = "TEXT"}
\* the least position of a non-empty set of positions
FirstPos(P) == CHOOSE k \in P : \A j \in P : k <= j
\* what a set_presentation_title_slide call on a valid slide does, T being
\* the slide's shapes with a text frame in shape order: it returns True; the
\* title is the text of T[0]; the attribution is the text of T[1] when T has
\* two shapes or more; when T has one shape, T[0] holds the paragraphs of the
\* title and then one paragraph more, whose text is lead followed by the
\* attribution; no other shape, slide, map or file is changed
TitleSlideCallWrites(lead) ==
    (call'.op = "set_presentation_title_slide"
     /\ presentation # "None"
     /\ 0 <= call'.args[1] /\ call'.args[1] < Len(slides)) =>
        LET i == call'.args[1]
            title == IF call'.args[2] = NoneT THEN DefaultTitle ELSE call'.args[2]
            attribution == IF call'.args[3] = NoneT THEN DefaultAttribution
                           ELSE call'.args[3]
            old == slides[i + 1].shapes
            new == slides'[i + 1].shapes
            T == TextPos(old)
        IN /\ ret' = RetBool(TRUE)
           /\ raised' = "None"
           /\ UNCHANGED <<files, summary_tables, section_summaries>>
           /\ Len(slides') = Len(slides)
           /\ \A j \in 1..Len(slides) : j # i + 1 => slides'[j] = slides[j]
           /\ slides'[i + 1].layout = slides[i + 1].layout
           /\ Len(new) = Len(old)
           /\ T = {} => new = old
           /\ Cardinality(T) = 1 =>
                  LET t0 == FirstPos(T) IN
                  /\ new[t0].paras = Split(title, NL) \o <<lead \o attribution>>
                  /\ \A k \in 1..Len(old) : k # t0 => new[k] = old[k]
           /\ Cardinality(T) >= 2 =>
                  LET t0 == FirstPos(T)
                      t1 == FirstPos(T \ {t0})
                  IN /\ FrameText(new[t0].paras) = title
                     /\ FrameText(new[t1].paras) = attribution
                     /\ \A k \in 1..Len(old) : k \notin {t0, t1} => new[k] = old[k]

\* the positions of the shapes of a slide that have a non-empty text
NonEmptyTextPos(shapes) ==
    {k \in 1..Len(shapes) : shapes[k].kind = "TEXT" /\ FrameText(shapes[k].paras) # <<>>}
\* the title of a slide by the title of its first title-flagged shape with a
\* text, else by its first text
TitleByFirstText(slide) ==
    LET P == NonEmptyTextPos(slide.shapes)
        F == {k \in P : slide.shapes[k].is_title}
    IN IF F # {} THEN FrameText(slide.shapes[FirstPos(F)].paras)
       ELSE IF P # {} THEN FrameText(slide.shapes[FirstPos(P)].paras)
       ELSE Untitled
\* the text of the shape at 1-based position k of a slide, "" when the slide
\* has no such shape or the shape has no text frame
TextAt(slide, k) ==
    IF Len(slide.shapes) >= k /\ slide.shapes[k].kind = "TEXT"
    THEN FrameText(slide.shapes[k].paras) ELSE <<>>
\* every entry of a section-summary map d is the text of shapes 0 and 1 of
\* its slide in the slide list sl
SectionMapMatchesSlides(d, sl) ==
    \A i \in DOMAIN d :
        /\ 0 <= i /\ i < Len(sl)
        /\ d[i].section_title = TextAt(sl[i + 1], 1)
        /\ d[i].section_summary = TextAt(sl[i + 1], 2)
IsShow(op) ==
    op \in {"show_slide_metadata", "show_presentation_metadata", "show_summary_tables"}

(***************************************************************************)
(* C1.  After a successful set_summary_table(i, r, c, X),                  *)
(* get_summary_table(i)[0][r][c] is X, also with show calls made between   *)
(* the set and the get.  pend holds <<i, r, c, X>> from a successful set   *)
(* for as long as only show and get calls follow it.                       *)
(***************************************************************************)
C1_GetAfterSetReadsX ==
    pend # <<>> =>
        LET got == GetTables(slides, summary_tables, pend[1]).ret IN
        /\ got.kind = "list"
        /\ got.val[1][pend[2] + 1][pend[3] + 1] = pend[4]
        /\ (Op = "get_summary_table" /\ Arg(1) = pend[1]) =>
               /\ ret.kind = "list"
               /\ ret.val[1][pend[2] + 1][pend[3] + 1] = pend[4]

\* a multi-line text was set in a cell of a summary slide, show_slide_metadata
\* ran on that slide afterwards, and the get still reads the text
C1_Witness ==
    /\ pend # <<>>
    /\ pend[4] = TxMulti
    /\ Op = "show_slide_metadata"
    /\ Arg(1) = pend[1]
    /\ InList(summary_slides, pend[1])
    /\ GetTables(slides, summary_tables, pend[1]).ret.val[1][pend[2] + 1][pend[3] + 1]
           = TxMulti

(***************************************************************************)
(* C2.  On a valid slide index with a table, set_summary_table with a row  *)
(* or column outside the first cached grid returns False and changes no    *)
(* cell: the document is as before, every cached entry is as before, and   *)
(* the only entry the call may add is the fresh extraction of that slide.  *)
(***************************************************************************)
C2_OutOfGridSetChangesNothing ==
    [][(call'.op = "set_summary_table"
        /\ ValidIndex(slides, call'.args[1])
        /\ SomeTableShape(slides[call'.args[1] + 1])) =>
          LET i == call'.args[1]
              row == call'.args[2]
              col == call'.args[3]
              had == i \in DOMAIN summary_tables
              rows == IF had THEN Len(summary_tables[i][1])
                      ELSE Len(FirstTableShape(slides[i + 1]).rows)
              cols == IF had THEN Len(summary_tables[i][1][1])
                      ELSE Len(FirstTableShape(slides[i + 1]).rows[1])
          IN (row < 0 \/ row >= rows \/ col < 0 \/ col >= cols) =>
                /\ ret' = RetBool(FALSE)
                /\ raised' = "None"
                /\ slides' = slides
                /\ files' = files
                /\ \A k \in DOMAIN summary_tables :
                       k \in DOMAIN summary_tables' /\ summary_tables'[k] = summary_tables[k]
                /\ \A k \in DOMAIN summary_tables' :
                       k \notin DOMAIN summary_tables =>
                           /\ k = i
                           /\ summary_tables'[k] = SlideTables(slides[i + 1].shapes, 1)
      ]_vars

\* a set with a row past the last row of the cached grid has returned False
C2_Witness ==
    /\ Op = "set_summary_table"
    /\ ret = RetBool(FALSE)
    /\ ValidIndex(slides, Arg(1))
    /\ SomeTableShape(slides[Arg(1) + 1])
    /\ Arg(1) \in DOMAIN summary_tables
    /\ Arg(2) >= Len(summary_tables[Arg(1)][1])
    /\ Arg(3) = 0

(***************************************************************************)
(* C3.  As claimed: a successful set_summary_table(i, r, c, text) sets     *)
(* cell (r, c) of the first cached grid and of the first table shape of    *)
(* slide i, changes no other cached or native cell, and the saved file     *)
(* holds the text in that cell.                                            *)
(***************************************************************************)
C3_Original ==
    [][(call'.op = "set_summary_table" /\ ret' = RetBool(TRUE)) =>
          LET i == call'.args[1]
              row == call'.args[2]
              col == call'.args[3]
              text == call'.args[4]
              before == IF i \in DOMAIN summary_tables THEN summary_tables
                        ELSE Put(summary_tables, i, SlideTables(slides[i + 1].shapes, 1))
              saved == DeckFile(slides')
          IN /\ summary_tables' =
                    [before EXCEPT ![i][1][row + 1][col + 1] = text]
             /\ SomeTableShape(slides[i + 1])
             /\ LET k == CHOOSE k \in 1..Len(slides[i + 1].shapes) :
                             slides'[i + 1].shapes[k] = FirstTableShape(slides'[i + 1])
                IN /\ FrameText(slides'[i + 1].shapes[k].rows[row + 1][col + 1]) = text
                   /\ slides' = [slides EXCEPT ![i + 1].shapes[k].rows[row + 1][col + 1]
                                                  = slides'[i + 1].shapes[k].rows[row + 1][col + 1]]
                   /\ FrameText(saved.slides[i + 1].shapes[k].rows[row + 1][col + 1]) = text
      ]_vars

(***************************************************************************)
(* C4.  As claimed: each setter called with a slide index outside          *)
(* [0, slide_count) returns False without raising and leaves the table     *)
(* cache and the section-summary map as they were.                         *)
(***************************************************************************)
C4_Original ==
    [][(IsSetter(call'.op) /\ ~(0 <= call'.args[1] /\ call'.args[1] < Len(slides))) =>
          /\ ret' = RetBool(FALSE)
          /\ raised' = "None"
          /\ summary_tables' = summary_tables
          /\ section_summaries' = section_summaries
      ]_vars

(***************************************************************************)
(* C5.  extract_table_from_slide(i) on a slide with no table shape returns *)
(* an empty list and leaves the cache, keys and entries, as it was.        *)
(***************************************************************************)
C5_NoTableNoCacheWrite ==
    [][(call'.op = "extract_table_from_slide"
        /\ ValidIndex(slides, call'.args[1])
        /\ ~SomeTableShape(slides[call'.args[1] + 1])) =>
          /\ ret' = RetList(<<>>)
          /\ raised' = "None"
          /\ summary_tables' = summary_tables
      ]_vars

\* an extraction on a slide without tables has returned [] and the slide has
\* no cache entry, while another slide has one
C5_Witness ==
    /\ Op = "extract_table_from_slide"
    /\ ValidIndex(slides, Arg(1))
    /\ ~SomeTableShape(slides[Arg(1) + 1])
    /\ ret = RetList(<<>>)
    /\ Arg(1) \notin DOMAIN summary_tables
    /\ DOMAIN summary_tables # {}

(***************************************************************************)
(* C6.  As claimed: extract_table_from_slide with an index outside         *)
(* [0, slide_count), negative ones included, raises nothing, reads no      *)
(* slide (it returns no grid) and leaves the object as it was.             *)
(***************************************************************************)
C6_Original ==
    [][(call'.op = "extract_table_from_slide"
        /\ ~(0 <= call'.args[1] /\ call'.args[1] < Len(slides))) =>
          /\ raised' = "None"
          /\ ret' = RetList(<<>>)
          /\ UNCHANGED fields
      ]_vars

(***************************************************************************)
(* C7.  get_summary_table(index) never raises; it returns None for an      *)
(* index outside [0, slide_count); it returns the cached grids when the    *)
(* cache has an entry; otherwise it runs the extraction, and returns the   *)
(* grids now cached, or None when the slide has no table.                  *)
(***************************************************************************)
C7_GetReturnsCachedOrExtracts ==
    [][(call'.op = "get_summary_table") =>
          LET i == call'.args[1] IN
          /\ raised' = "None"
          /\ UNCHANGED <<slides, section_summaries>>
          /\ IF ~(0 <= i /\ i < Len(slides))
             THEN ret' = RetNone /\ summary_tables' = summary_tables
             ELSE IF i \in DOMAIN summary_tables
             THEN ret' = RetList(summary_tables[i]) /\ summary_tables' = summary_tables
             ELSE /\ summary_tables' = ExtractTables(slides, summary_tables, i).cache
                  /\ IF SomeTableShape(slides[i + 1])
                     THEN /\ i \in DOMAIN summary_tables'
                          /\ ret' = RetList(summary_tables'[i])
                          /\ ret'.val # <<>>
                     ELSE /\ ret' = RetNone
                          /\ summary_tables' = summary_tables
      ]_vars

\* a get on a slide with tables whose entry is the only one in the cache has
\* returned its grids
C7_Witness ==
    /\ Op = "get_summary_table"
    /\ ret.kind = "list"
    /\ DOMAIN summary_tables = {Arg(1)}
    /\ ret.val = summary_tables[Arg(1)]
    /\ Len(ret.val) = 2

(***************************************************************************)
(* C8.  After load, a slide index is in the section-header list if and     *)
(* only if the slide's layout name is exactly "Section Header"; the list   *)
(* holds each such index once, in ascending slide order.                   *)
(***************************************************************************)
C8_SectionHeaderIffLayout ==
    presentation # "None" =>
        /\ \A k \in 1..Len(section_header) : section_header[k] \in SlideIndices
        /\ \A i \in SlideIndices :
               InList(section_header, i) <=> (slides[i + 1].layout = SectionHeaderName)
        /\ StrictlyAscending(section_header)

\* a loaded two-slide deck: slide 0 is named "section header" and is left
\* out, slide 1 is named "Section Header" and is listed
C8_Witness ==
    /\ presentation # "None"
    /\ Len(slides) = 2
    /\ slides[1].layout = LowerSectionName
    /\ slides[2].layout = SectionHeaderName
    /\ section_header = <<1>>

C11_SectionEntryFromShapes01 ==
    presentation # "None" =>
        \A k \in 1..Len(section_header) :
            LET i == section_header[k]
                sh == slides[i + 1].shapes
            IN /\ i \in DOMAIN section_summaries
               /\ section_summaries[i].section_title =
                      (IF Len(sh) >= 1 /\ sh[1].kind = "TEXT"
                       THEN FrameText(sh[1].paras) ELSE <<>>)
               /\ section_summaries[i].section_summary =
                      (IF Len(sh) >= 2 /\ sh[2].kind = "TEXT"
                       THEN FrameText(sh[2].paras) ELSE <<>>)

\* a loaded deck with two section-header slides: one with a picture at
\* position 0 and texts at positions 1 and 2, whose entry has an empty title
\* and the text of position 1 as summary, and one with a single shape, whose
\* entry has an empty summary
C11_Witness ==
    /\ presentation # "None"
    /\ Len(slides) = 2
    /\ section_header = <<0, 1>>
    /\ Len(slides[1].shapes) = 3
    /\ slides[1].shapes[1].kind = "PICTURE"
    /\ section_summaries[0] = [section_title |-> <<>>, section_summary |-> TxIntro]
    /\ Len(slides[2].shapes) = 1
    /\ section_summaries[1] = [section_title |-> TxSummaryQ1, section_summary |-> <<>>]

(***************************************************************************)
(* C12.  Across every call of a session (load, extraction, get, set, show, *)
(* save), the key set of the table cache and the key set of the            *)
(* section-summary map only grow: a key present before a call is present   *)
(* after it.                                                               *)
(***************************************************************************)
C12_KeysOnlyGrow ==
    [][/\ \A k \in DOMAIN summary_tables : k \in DOMAIN summary_tables'
       /\ \A k \in DOMAIN section_summaries : k \in DOMAIN section_summaries'
      ]_vars

\* a second deck has been loaded, and both maps still hold a key of the
\* first: a section entry of a slide that is no section header, and a table
\* entry of a slide that has no table
C12_Witness ==
    /\ Op = "load_presentation"
    /\ raised = "None"
    /\ \E k \in DOMAIN section_summaries : ~InList(section_header, k)
    /\ \E k \in DOMAIN summary_tables :
           /\ 0 <= k /\ k < Len(slides)
           /\ ~SomeTableShape(slides[k + 1])

(***************************************************************************)
(* C13.  set_section_summary(index, title, summary) with an index that has *)
(* no entry in the section-summary map returns False, writes no shape text *)
(* on any slide and leaves the map as it was, also when index is a valid   *)
(* slide index.                                                            *)
(***************************************************************************)
C13_NoEntryNoSectionWrite ==
    [][(call'.op = "set_section_summary"
        /\ call'.args[1] \notin DOMAIN section_summaries) =>
          /\ ret' = RetBool(FALSE)
          /\ raised' = "None"
          /\ slides' = slides
          /\ files' = files
          /\ section_summaries' = section_summaries
      ]_vars

\* a set with a new title and a new summary on a valid slide that has shapes
\* with a text frame at positions 0 and 1 but no entry has returned False
C13_Witness ==
    /\ Op = "set_section_summary"
    /\ ValidIndex(slides, Arg(1))
    /\ Arg(1) \notin DOMAIN section_summaries
    /\ Arg(2) = TxNew
    /\ Arg(3) = TxNew
    /\ Len(slides[Arg(1) + 1].shapes) >= 1
    /\ slides[Arg(1) + 1].shapes[1].kind = "TEXT"
    /\ FrameText(slides[Arg(1) + 1].shapes[1].paras) # TxNew
    /\ ret = RetBool(FALSE)

(***************************************************************************)
(* C14.  As claimed: set_presentation_title_slide on a valid slide writes  *)
(* the title to T[0] and the attribution to T[1]; when T has exactly one   *)
(* shape, T[0] holds the title followed by a paragraph whose text is the   *)
(* attribution text; the call returns True also when a slot is missing,    *)
(* and no shape other than T[0] and T[1] is modified.                      *)
(***************************************************************************)
C14_Original == [][TitleSlideCallWrites(<<>>)]_vars

(***************************************************************************)
(* C14, amended.  The same, but when T has exactly one shape the appended  *)
(* paragraph's text is two line breaks followed by the attribution text.   *)
(***************************************************************************)
C14_AttributionAfterTwoLineBreaks == [][TitleSlideCallWrites(<<VT, VT>>)]_vars

\* a call with a title and an attribution on a slide whose only shape with a
\* text frame stands after a picture has returned True: that shape holds
\* the title and then the paragraph of the attribution
C14_Witness ==
    /\ Op = "set_presentation_title_slide"
    /\ ret = RetBool(TRUE)
    /\ Arg(2) = TxNew
    /\ Arg(3) = TxBy
    /\ LET sh == slides[Arg(1) + 1].shapes IN
       /\ TextPos(sh) = {2}
       /\ sh[1].kind = "PICTURE"
       /\ sh[2].paras = <<TxNew, <<VT, VT>> \o TxBy>>
       /\ FrameText(sh[2].paras) = TxNew \o <<NL, VT, VT>> \o TxBy

(***************************************************************************)
(* C15.  As claimed: load_presentation raises the not-found error for a    *)
(* path that does not exist, the invalid-path error for a path that is no  *)
(* regular file and a format error for a file that is no deck, and in each *)
(* case constructs nothing: a session that held nothing before the call    *)
(* holds no presentation, no slides, no classification lists and no record *)
(* of the failed path after it.                                            *)
(***************************************************************************)
C15_Original ==
    [][(call'.op = "load_presentation" /\ files[call'.args[1]].kind # "deck") =>
          /\ files[call'.args[1]].kind = "absent" => raised' = "FileNotFoundError"
          /\ files[call'.args[1]].kind = "dir" => raised' = "ValueError"
          /\ files[call'.args[1]].kind = "corrupt" => raised' = "PackageNotFoundError"
          /\ presentation' = presentation
          /\ slides' = slides
          /\ <<title_slides', summary_slides', section_header'>>
                 = <<title_slides, summary_slides, section_header>>
          /\ file_path' # call'.args[1]
          /\ (presentation = "None" /\ file_path = "None") =>
                 /\ presentation' = "None"
                 /\ slides' = <<>>
                 /\ file_path' = "None"
      ]_vars

(***************************************************************************)
(* C16.  As claimed: show_slide_metadata, show_presentation_metadata and   *)
(* show_summary_tables are read views: each leaves the table cache, the    *)
(* section-summary map, the classification lists and the document as they  *)
(* were.                                                                   *)
(***************************************************************************)
C16_Original ==
    [][IsShow(call'.op) =>
          /\ summary_tables' = summary_tables
          /\ section_summaries' = section_summaries
          /\ <<title_slides', summary_slides', section_header'>>
                 = <<title_slides, summary_slides, section_header>>
          /\ <<presentation', slides', files'>> = <<presentation, slides, files>>
      ]_vars

(***************************************************************************)
(* C17.  As claimed: the session ends with its save: after a               *)
(* save_presentation that succeeded, no further extraction, get, set, show *)
(* or save on the session is permitted, so each such call is refused with  *)
(* an exception.                                                           *)
(***************************************************************************)
C17_Original ==
    [][(call.op = "save_presentation" /\ raised = "None"
        /\ call'.op # "load_presentation") =>
          raised' # "None"
      ]_vars

(***************************************************************************)
(* C18.  extract_table_from_slide(i) called twice in a row on a valid      *)
(* index i returns, the second time, grids equal to those of the first     *)
(* call, and leaves the cache entry of i as the first call left it.        *)
(***************************************************************************)
C18_ExtractTwiceSame ==
    [][(call'.op = "extract_table_from_slide"
        /\ call = call'
        /\ 0 <= call'.args[1] /\ call'.args[1] < Len(slides)) =>
          LET i == call'.args[1] IN
          /\ raised' = "None"
          /\ ret' = ret
          /\ (i \in DOMAIN summary_tables') <=> (i \in DOMAIN summary_tables)
          /\ i \in DOMAIN summary_tables => summary_tables'[i] = summary_tables[i]
      ]_vars

\* the second of two extractions in a row on a slide with two tables has
\* returned the two grids, and the cache entry of the slide holds them
C18_Witness ==
    /\ repeated
    /\ Op = "extract_table_from_slide"
    /\ ValidIndex(slides, Arg(1))
    /\ ret.kind = "list"
    /\ Len(ret.val) = 2
    /\ Arg(1) \in DOMAIN summary_tables
    /\ summary_tables[Arg(1)] = ret.val

(***************************************************************************)
(* C19.  As claimed: the title extract_metadata_from_slide resolves is the *)
(* text of the first shape that is title-flagged and has a non-empty text, *)
(* when there is one; otherwise the text of the first shape with a         *)
(* non-empty text; otherwise "Untitled".                                   *)
(***************************************************************************)
C19_Original ==
    Op = "extract_metadata_from_slide" =>
        ret.val.title = TitleByFirstText(slides[Arg(1) + 1])

(***************************************************************************)
(* C20.  As claimed: the summary list holds exactly the indices, in        *)
(* ascending order, of the slides whose title starts, in lower case, with  *)
(* "summary" and which have a table shape; a text in a shape that is not   *)
(* the title does not make a slide a summary slide.                        *)
(***************************************************************************)
C20_Original ==
    presentation # "None" =>
        /\ StrictlyAscending(summary_slides)
        /\ \A k \in 1..Len(summary_slides) : summary_slides[k] \in SlideIndices
        /\ \A i \in SlideIndices :
               InList(summary_slides, i) <=>
                   /\ StartsWith(Lower(TitleByFirstText(slides[i + 1])), SummaryWord)
                   /\ SomeTableShape(slides[i + 1])

(***************************************************************************)
(* C21.  As claimed: in every reachable state, every key of the table      *)
(* cache is an index i of the loaded deck, 0 <= i < len(slides), and slide *)
(* i has a table shape.                                                    *)
(***************************************************************************)
C21_Original ==
    \A k \in DOMAIN summary_tables :
        /\ 0 <= k /\ k < Len(slides)
        /\ SomeTableShape(slides[k + 1])

(***************************************************************************)
(* C22.  As claimed: when load_presentation has completed, on a fresh      *)
(* session or on one that had a deck loaded, the keys of the               *)
(* section-summary map are the indices of the section-header list, and the *)
(* table cache holds no entry of a deck loaded before: every entry it has  *)
(* is the extraction of its slide in the deck just loaded.                 *)
(***************************************************************************)
C22_Original ==
    (Op = "load_presentation" /\ raised = "None") =>
        /\ DOMAIN section_summaries = {i \in SlideIndices : InList(section_header, i)}
        /\ \A k \in DOMAIN summary_tables :
               /\ 0 <= k /\ k < Len(slides)
               /\ summary_tables[k] = SlideTables(slides[k + 1].shapes, 1)

(***************************************************************************)
(* C23.  As claimed: after a set_summary_table(i, r, c, X) that returned   *)
(* True, for every text X, a text with a newline included, the             *)
(* extract_table_from_slide(i) that follows returns grids whose [0][r][c]  *)
(* is X, and leaves the cache entry of i as it was before the extraction.  *)
(***************************************************************************)
C23_Original ==
    [][(call.op = "set_summary_table" /\ ret = RetBool(TRUE)
        /\ call'.op = "extract_table_from_slide"
        /\ call'.args[1] = call.args[1]) =>
          LET i == call.args[1]
              row == call.args[2]
              col == call.args[3]
              X == call.args[4]
          IN /\ raised' = "None"
             /\ ret'.kind = "list"
             /\ Len(ret'.val) >= 1
             /\ ret'.val[1][row + 1][col + 1] = X
             /\ i \in DOMAIN summary_tables'
             /\ summary_tables'[i] = summary_tables[i]
      ]_vars

(***************************************************************************)
(* C24.  As claimed: over the calls made after a load (the setters, the    *)
(* extractions, the gets, the shows, the save), for every index i of the   *)
(* section-summary map the cached title is the current text of shape 0 of  *)
(* slide i and the cached summary the current text of shape 1, "" for a    *)
(* shape that is absent or has no text frame: a call other than a load     *)
(* made in a state where this holds leaves it holding.                     *)
(***************************************************************************)
C24_Original ==
    [][(call'.op # "load_presentation"
        /\ SectionMapMatchesSlides(section_summaries, slides)) =>
          SectionMapMatchesSlides(section_summaries', slides')
      ]_vars

====
